---- MODULE Spec2Model ----
\* COXPRESdb ingestion: the loader load_coxpresdb_coexpression (dataset locator,
\* record parser, schema validation) of gene_conservation_network/io.py and the
\* batch exporter process_zip_file / main of scripts/transform_coxpresdb_data.py.
\*
\* Text is modelled as a sequence of one-character strings, so that strip, split,
\* int(), float(), str.title(), glob matching and sorting are computed the way
\* Python computes them.  The character "#" stands for a byte that is not valid
\* UTF-8 (0xff); every other character is ASCII.
EXTENDS Integers, Sequences, FiniteSets, TLC

\* ---------------------------------------------------------------- bounds
\* The most archive members of a directory whose archives are filled from the
\* sample members (over all its archives).
MaxMembers == 2
\* The most files in a directory.
MaxArchives == 2
\* The most runs of the exporter's main() over the same directories.
MaxRuns == 2

\* ---------------------------------------------------------------- characters
UpperLetters ==
  << "A", "B", "C", "D", "E", "F", "G", "H", "I", "J", "K", "L", "M",
     "N", "O", "P", "Q", "R", "S", "T", "U", "V", "W", "X", "Y", "Z" >>

LowerLetters ==
  << "a", "b", "c", "d", "e", "f", "g", "h", "i", "j", "k", "l", "m",
     "n", "o", "p", "q", "r", "s", "t", "u", "v", "w", "x", "y", "z" >>

DigitChars == << "0", "1", "2", "3", "4", "5", "6", "7", "8", "9" >>

\* The characters of the model in code-point order ("#" is the byte 0xff).
AsciiOrder ==
  << "\t", "\n", "\r", " ", "+", "-", ".", "/" >> \o DigitChars
    \o UpperLetters \o LowerLetters \o << "#" >>

Range(s) == { s[i] : i \in 1..Len(s) }

IndexOf(s, c) == CHOOSE i \in 1..Len(s) : s[i] = c

Ord(c) == IndexOf(AsciiOrder, c)

IsDigit(c) == c \in Range(DigitChars)

IsUpper(c) == c \in Range(UpperLetters)

IsLower(c) == c \in Range(LowerLetters)

ToUpper(c) == IF IsLower(c) THEN UpperLetters[IndexOf(LowerLetters, c)] ELSE c

ToLower(c) == IF IsUpper(c) THEN LowerLetters[IndexOf(UpperLetters, c)] ELSE c

\* str.isspace() for the characters of the model.
IsSpace(c) == c \in { "\t", "\n", "\r", " " }

\* ---------------------------------------------------------------- str methods
\* s[a..b] as Python slices it (empty when a > b).
Slice(s, a, b) == IF a > b THEN << >> ELSE SubSeq(s, a, b)

StartsWith(s, p) == Len(p) <= Len(s) /\ Slice(s, 1, Len(p)) = p

EndsWith(s, p) == Len(p) <= Len(s) /\ Slice(s, Len(s) - Len(p) + 1, Len(s)) = p

\* str.strip(): leading and trailing whitespace removed.
Strip(s) ==
  LET keep == { i \in 1..Len(s) : ~IsSpace(s[i]) }
      lo == CHOOSE i \in keep : \A j \in keep : i <= j
      hi == CHOOSE i \in keep : \A j \in keep : j <= i
  IN  IF keep = {} THEN << >> ELSE SubSeq(s, lo, hi)

\* str.split(sep) for a one-character separator: always at least one field.
RECURSIVE Split(_, _)
Split(s, sep) ==
  LET at == { i \in 1..Len(s) : s[i] = sep }
      first == CHOOSE i \in at : \A j \in at : i <= j
  IN  IF at = {} THEN << s >>
      ELSE << Slice(s, 1, first - 1) >> \o Split(Slice(s, first + 1, Len(s)), sep)

\* str.lower(), used where Python compares case-insensitively.
Lowered(s) == [ i \in 1..Len(s) |-> ToLower(s[i]) ]

\* The mutant of Title: the species is used as given.
TitleAsGiven(s) == s

\* str.title(): a letter that follows a letter is lowered, any other letter is raised.
Title(s) ==
  [ i \in 1..Len(s) |->
      IF i > 1 /\ (IsUpper(s[i - 1]) \/ IsLower(s[i - 1]))
      THEN ToLower(s[i]) ELSE ToUpper(s[i]) ]

\* Lexicographic order of two texts by code point (Python's str comparison).
RECURSIVE StrLess(_, _)
StrLess(a, b) ==
  IF b = << >> THEN FALSE
  ELSE IF a = << >> THEN TRUE
  ELSE IF a[1] # b[1] THEN Ord(a[1]) < Ord(b[1])
  ELSE StrLess(Tail(a), Tail(b))

\* ---------------------------------------------------------------- int(), float()
AllDigits(s) == \A i \in 1..Len(s) : IsDigit(s[i])

\* A digit string without its leading zeros ("0" for zero).
RECURSIVE DropZeros(_)
DropZeros(d) ==
  IF Len(d) > 1 /\ d[1] = "0" THEN DropZeros(Tail(d))
  ELSE IF d = << >> THEN << "0" >> ELSE d

HasSign(t) == t # << >> /\ t[1] \in { "+", "-" }

Unsigned(t) == IF HasSign(t) THEN Tail(t) ELSE t

\* An integer of unbounded size, as Python holds it: sign and decimal digits.
IntValue(neg, digits) ==
  LET d == DropZeros(digits)
  IN  [ neg |-> neg /\ d # << "0" >>, digits |-> d ]

\* Whether int(s) returns (it raises ValueError otherwise): surrounding whitespace is
\* dropped, then an optional sign and one or more decimal digits.
IntParses(s) ==
  LET body == Unsigned(Strip(s))
  IN  body # << >> /\ AllDigits(body)

\* int(s), defined where IntParses(s).
PyInt(s) ==
  LET t == Strip(s)
  IN  IntValue(HasSign(t) /\ t[1] = "-", Unsigned(t))

\* str(n) for an integer n.
IntStr(n) == IF n.neg THEN << "-" >> \o n.digits ELSE n.digits

\* Whether float(s) returns: whitespace dropped, optional sign, then nan, inf,
\* infinity (any case) or decimal digits with at most one point and at least one
\* digit.  Exponent forms do not occur in the texts of this model.
FloatParses(s) ==
  LET body == Lowered(Unsigned(Strip(s)))
      parts == Split(body, ".")
  IN  \/ body \in { << "n", "a", "n" >>, << "i", "n", "f" >>,
                    << "i", "n", "f", "i", "n", "i", "t", "y" >> }
      \/ /\ Len(parts) <= 2
         /\ \A i \in 1..Len(parts) : AllDigits(parts[i])
         /\ \E i \in 1..Len(parts) : parts[i] # << >>

\* float(s), defined where FloatParses(s): the kind of the value and, for a finite
\* one, its digits and the number of them after the point.
PyFloat(s) ==
  LET t == Strip(s)
      neg == HasSign(t) /\ t[1] = "-"
      body == Lowered(Unsigned(t))
      parts == Split(body, ".")
      frac == IF Len(parts) = 2 THEN parts[2] ELSE << >>
  IN  IF body = << "n", "a", "n" >>
      THEN [ kind |-> "nan", neg |-> FALSE, digits |-> << >>, scale |-> 0 ]
      ELSE IF body[1] = "i"
      THEN [ kind |-> "inf", neg |-> neg, digits |-> << >>, scale |-> 0 ]
      ELSE [ kind |-> "finite", neg |-> neg,
             digits |-> DropZeros(parts[1] \o frac), scale |-> Len(frac) ]

\* The largest int64 and the magnitude of the smallest, as digit strings.
Int64Max ==
  << "9", "2", "2", "3", "3", "7", "2", "0", "3", "6", "8", "5", "4", "7", "7",
     "5", "8", "0", "7" >>

Int64MinMagnitude ==
  << "9", "2", "2", "3", "3", "7", "2", "0", "3", "6", "8", "5", "4", "7", "7",
     "5", "8", "0", "8" >>

\* Whether the integer n is held by a 64-bit signed column.
FitsInt64(n) ==
  LET limit == IF n.neg THEN Int64MinMagnitude ELSE Int64Max
  IN  \/ Len(n.digits) < Len(limit)
      \/ Len(n.digits) = Len(limit) /\ ~StrLess(limit, n.digits)

\* ---------------------------------------------------------------- record parser
\* bytes.decode("utf-8") returns unless a byte is not valid UTF-8 (then it raises
\* UnicodeDecodeError).
Decodes(bytes) == "#" \notin Range(bytes)

\* The names of namelist() that are neither directory entries nor hidden.
FileList(names) ==
  SelectSeq(names, LAMBDA f : ~EndsWith(f, << "/" >>) /\ ~StartsWith(f, << "." >>))

\* The part of a member name after its last "/".
RECURSIVE Basename(_)
Basename(filename) ==
  IF "/" \notin Range(filename) THEN filename ELSE Basename(Tail(filename))

\* The mutant of IsGeneFile: the name is parsed without its folders.
IsGeneFileByBasename(filename) == IntParses(Basename(filename))

\* try: int(filename) / except ValueError: continue
IsGeneFile(filename) == IntParses(filename)

\* One line of a member: the record appended for it, if any.
LineRecords(gene_id_1, line) ==
  LET parts == Split(line, "\t")
  IN  IF line = << >> THEN << >>
      ELSE IF Len(parts) < 2 THEN << >>
      ELSE IF IntParses(parts[1]) /\ FloatParses(parts[2])
      THEN << [ gene_id_1 |-> gene_id_1, gene_id_2 |-> PyInt(parts[1]),
                association |-> PyFloat(parts[2]) ] >>
      ELSE << >>

RECURSIVE LinesRecords(_, _)
LinesRecords(gene_id_1, lines) ==
  IF lines = << >> THEN << >>
  ELSE LineRecords(gene_id_1, Head(lines)) \o LinesRecords(gene_id_1, Tail(lines))

\* The records of one decoded member: content.strip().split("\n"), line by line.
ParseContent(gene_id_1, content) ==
  LinesRecords(gene_id_1, Split(Strip(content), "\n"))

\* ---------------------------------------------------------------- tables
Columns == << "gene_id_1", "gene_id_2", "association" >>

\* pd.DataFrame(records): no column at all for an empty list; an integer column is
\* int64 when every value fits and is an object (or uint64) column otherwise.
DataFrame(records) ==
  LET ints(col) == \A i \in 1..Len(records) : FitsInt64(records[i][col])
  IN  [ columns |-> IF records = << >> THEN << >> ELSE Columns,
        dtypes |-> IF records = << >> THEN << >>
                   ELSE << IF ints("gene_id_1") THEN "int64" ELSE "object",
                           IF ints("gene_id_2") THEN "int64" ELSE "object",
                           "float64" >>,
        rows |-> records ]

HasNull(df) == \E i \in 1..Len(df.rows) : df.rows[i].association.kind = "nan"

\* The mutant of SchemaValid: the null check is left out.
SchemaValidNullable(df) ==
  /\ Range(df.columns) = Range(Columns)
  /\ df.dtypes = << "int64", "int64", "float64" >>

\* CoexpressionSchema.validate(df) returns (it raises SchemaError otherwise): strict
\* columns, int64 / int64 / float64, no null.
SchemaValid(df) ==
  /\ Range(df.columns) = Range(Columns)
  /\ df.dtypes = << "int64", "int64", "float64" >>
  /\ ~HasNull(df)

\* ---------------------------------------------------------------- sample inputs
\* Archive members: [name, body], the body being the member's bytes.
Member(name, body) == [ name |-> name, body |-> body ]

\* "42" holding "7\t0.55\n": one well-formed line.
MGood == Member(<< "4", "2" >>, << "7", "\t", "0", ".", "5", "5", "\n" >>)

\* "7" holding a well-formed line and a line with a non-numeric second field.
MMixed ==
  Member(<< "7" >>, << "4", "2", "\t", "0", ".", "5", "\n", "9", "\t", "x", "\n" >>)

\* "8" holding one line with too few fields: no well-formed line at all.
MNone == Member(<< "8" >>, << "7", "\n" >>)

\* "+42" (gene 42 under another name) holding a line whose second field is "nan".
MNan == Member(<< "+", "4", "2" >>, << "7", "\t", "n", "a", "n", "\n" >>)

\* "5" holding a well-formed line and a line with a byte that is not UTF-8.
MBadUtf8 == Member(<< "5" >>, << "7", "\t", "1", "\n", "#", "\n" >>)

\* "6" holding a line whose first field is an integer beyond 64 bits.
MBig ==
  Member(<< "6" >>,
         << "9", "9", "9", "9", "9", "9", "9", "9", "9", "9",
            "9", "9", "9", "9", "9", "9", "9", "9", "9", "9", "\t", "1" >>)

\* "042" (gene 42 again) whose first line starts with a tab: fields "", "7", "0.5".
MTab == Member(<< "0", "4", "2" >>, << "\t", "7", "\t", "0", ".", "5", "\n" >>)

\* "README.txt": not a gene file.
MReadme ==
  Member(<< "R", "E", "A", "D", "M", "E", ".", "t", "x", "t" >>,
         << "7", "\t", "0", ".", "5", "\n" >>)

\* "genes/": a directory entry.
MDir == Member(<< "g", "e", "n", "e", "s", "/" >>, << >>)

\* ".42": a hidden file with the body of a gene file.
MHidden == Member(<< ".", "4", "2" >>, << "7", "\t", "0", ".", "5", "5", "\n" >>)

\* "a/42": a gene file nested under a folder.
MNested == Member(<< "a", "/", "4", "2" >>, << "7", "\t", "0", ".", "5", "5", "\n" >>)

SampleMembers ==
  { MGood, MMixed, MNone, MNan, MBadUtf8, MBig, MTab, MReadme, MDir, MHidden, MNested }

\* The sequences over S of length n.
RECURSIVE SeqsOfLen(_, _)
SeqsOfLen(S, n) ==
  IF n = 0 THEN { << >> }
  ELSE { << x >> \o t : x \in S, t \in SeqsOfLen(S, n - 1) }

\* File names of a data directory.
DotZip == << ".", "z", "i", "p" >>

SpoU == << "S", "p", "o", "-", "u", "." >>

FSpoU1 == SpoU \o << "v", "1" >> \o DotZip

FSpoU2 == SpoU \o << "v", "2" >> \o DotZip

FSpoU10 == SpoU \o << "v", "1", "0" >> \o DotZip

FSpo2U1 == << "S", "p", "o", "2", "-", "u", ".", "v", "1" >> \o DotZip

FSpoM1 == << "S", "p", "o", "-", "m", ".", "v", "1" >> \o DotZip

FLowerU1 == << "s", "p", "o", "-", "u", ".", "v", "1" >> \o DotZip

FSpoUTxt == SpoU \o << "v", "1", ".", "t", "x", "t" >>

LoaderFileNames == { FSpoU1, FSpoU2, FSpoU10, FSpo2U1, FSpoM1, FLowerU1, FSpoUTxt }

\* A file of a directory: its name, whether ZipFile can open it, and the members
\* of the archive in namelist() order.
ZipEntry(name, readable, members) ==
  [ name |-> name, readable |-> readable, members |-> members ]

\* The directories over the candidate names (a sequence): each name is absent,
\* an unreadable file, or an archive of members drawn from samples; at most
\* slots files and at most budget members in all.
RECURSIVE Dirs(_, _, _, _)
Dirs(names, samples, slots, budget) ==
  IF names = << >> THEN { {} }
  ELSE
    LET n == Head(names)
        rest(sl, b) == Dirs(Tail(names), samples, sl, b)
    IN  rest(slots, budget)
          \cup (IF slots = 0 THEN {}
                ELSE { { ZipEntry(n, FALSE, << >>) } \cup d : d \in rest(slots - 1, budget) }
                  \cup UNION {
                         { { ZipEntry(n, TRUE, ms) } \cup d :
                             ms \in SeqsOfLen(samples, k), d \in rest(slots - 1, budget - k) } :
                         k \in 0..budget })

\* Directories for the locator: up to MaxArchives of the loader's file names, each
\* a readable archive of one gene member.
LocateDirs ==
  UNION { { { ZipEntry(n, TRUE, f[n]) : n \in ns } : f \in [ ns -> { << MGood >>, << MMixed >> } ] } :
          ns \in { x \in SUBSET LoaderFileNames : Cardinality(x) <= MaxArchives } }

\* Directories for the parser: the one file Spo-u.v1.zip, unreadable or an archive
\* of up to MaxMembers sample members.
ParseDirs == Dirs(<< FSpoU1 >>, SampleMembers, 1, MaxMembers) \ { {} }

\* Input directories of the exporter: up to MaxArchives files, up to MaxMembers
\* members in all.
ExportDirs ==
  LET archives(slots) == Dirs(<< FSpoU1, FSpoU10 >>, SampleMembers, slots, MaxMembers)
  IN  archives(MaxArchives)
        \cup { d \cup { ZipEntry(FSpoUTxt, FALSE, << >>) } : d \in archives(MaxArchives - 1) }


\* ---------------------------------------------------------------- state
VARIABLES
  prog,            \* which program the behaviour runs: "load" or "export"
  dir,             \* the data directory (loader) or input directory (exporter)
  \* load_coxpresdb_coexpression
  lpc,             \* where the call is: idle, validated, located, reading, returned, raised
  call,            \* the arguments of the call: species, modality, version
  ncalls,          \* calls started so far
  species,         \* the local species after normalisation
  pattern,         \* the glob pattern
  matching_files,  \* sorted(Path(data_dir).glob(pattern))
  zip_path,        \* the archive selected
  file_list,       \* the names of file_list still to visit
  records,         \* the records accumulated
  outcome,         \* how the call ended: the table returned or the exception raised
  fsLog,           \* the filesystem accesses of the call, in order
  prev,            \* the arguments and outcome of the call before this one
  \* transform_coxpresdb_data.py
  epc,             \* where main() is: idle, scan (its loop), members (in process_zip_file), done
  run,             \* runs of main() started so far
  zip_files,       \* the archives main() has still to process
  efile_list,      \* the names of process_zip_file's file_list still to visit
  stats,           \* process_zip_file's stats
  all_stats,       \* main()'s all_stats
  outputs,         \* the parquet files under output_dir
  log_file,        \* the run summary at the log path, and how often this run wrote it
  events,          \* what this run did with each member visited, in order
  runs             \* the all_stats and events of the finished runs

loaderVars ==
  << lpc, call, ncalls, species, pattern, matching_files, zip_path, file_list,
     records, outcome, fsLog, prev >>

\* ---------------------------------------------------------------- dataset locator
NoVersion == [ given |-> FALSE, text |-> << >> ]

Version(text) == [ given |-> TRUE, text |-> text ]

SpeciesInputs == { << "s", "p", "o" >>, << "S", "p", "o" >>, << "S", "P", "O" >> }

ModalityInputs == { "microarray", "rna-seq", "union", "invalid" }

VersionInputs == { NoVersion, Version(<< "S", "p", "o" >>), Version(<< "S", "p", "o", "2" >>) }

\* modality_map
ModalityMap == [ m \in { "microarray", "rna-seq", "union" } |->
                 CASE m = "microarray" -> "m" [] m = "rna-seq" -> "r" [] m = "union" -> "u" ]

\* The mutant of ValidModality: every modality string is let through.
AnyModality(modality) == TRUE

\* modality in modality_map
ValidModality(modality) == modality \in DOMAIN ModalityMap

\* modality_map[modality], which raises KeyError for a string without an entry
\* (Enter ends the call there); "?" stands for no code.
ModalityCode(modality) ==
  IF modality \in DOMAIN ModalityMap THEN ModalityMap[modality] ELSE "?"

\* f"{version or species}-{modality_code}.*.zip"
Pattern(sp, code, version) ==
  (IF version.given /\ version.text # << >> THEN version.text ELSE sp)
    \o << "-", code, ".", "*" >> \o DotZip

\* Whether a file name matches a glob pattern with one "*" and no other wildcard.
GlobMatch(name, pat) ==
  LET star == IndexOf(pat, "*")
      pre == Slice(pat, 1, star - 1)
      post == Slice(pat, star + 1, Len(pat))
  IN  /\ Len(name) >= Len(pre) + Len(post)
      /\ StartsWith(name, pre)
      /\ EndsWith(name, post)

\* Path(data_dir).glob(pattern): the names of the matching files.
Glob(d, pat) == { e.name : e \in { x \in d : GlobMatch(x.name, pat) } }

\* sorted(): the names in ascending order.
RECURSIVE Sorted(_)
Sorted(S) ==
  IF S = {} THEN << >>
  ELSE LET least == CHOOSE x \in S : \A y \in S \ { x } : StrLess(x, y)
       IN  << least >> \o Sorted(S \ { least })

\* The mutant of Select: the first match is taken.
SelectFirst(files) == files[1]

\* matching_files[-1]
Select(files) == files[Len(files)]

\* The mutant of NoMatch: an empty list of matches is not refused.
NoMatchLetThrough(files) == FALSE

\* not matching_files
NoMatch(files) == files = << >>

\* The mutant of Ambiguous: several matches are never refused.
NeverAmbiguous(files, version) == FALSE

\* len(matching_files) > 1 and version is None
Ambiguous(files, version) == Len(files) > 1 /\ ~version.given

\* ---------------------------------------------------------------- the loader
\* How a call ends: kind is "ok" or the exception class, what the head of the
\* message, arg and names the values the message quotes, df the table returned.
Outcome(kind, what, arg, names, df) ==
  [ kind |-> kind, what |-> what, arg |-> arg, names |-> names, df |-> df ]

NoTable == DataFrame(<< >>)

NoOutcome == Outcome("none", "", "", << >>, NoTable)

FsAccess(op, name) == [ op |-> op, name |-> name ]

\* The file of the directory with this name.
FileNamed(d, name) == CHOOSE e \in d : e.name = name

\* zip_file.namelist()
NameList(members) == [ i \in 1..Len(members) |-> members[i].name ]

\* zip_file.read(filename): the bytes of the last member with that name.
ZipRead(members, filename) ==
  LET at == { i \in 1..Len(members) : members[i].name = filename }
      last == CHOOSE i \in at : \A j \in at : j <= i
  IN  members[last].body

\* Lines 41-50: the species is normalised and the modality validated.
Enter(sp, mo, ve) ==
  /\ call' = [ species |-> sp, modality |-> mo, version |-> ve ]
  /\ ncalls' = ncalls + 1
  /\ species' = Title(sp)
  /\ fsLog' = << >>
  /\ pattern' = << >>
  /\ matching_files' = << >>
  /\ zip_path' = << >>
  /\ file_list' = << >>
  /\ records' = << >>
  /\ IF ~ValidModality(mo)
     THEN /\ outcome' = Outcome("ValueError", "Invalid modality", mo, << >>, NoTable)
          /\ lpc' = "raised"
     ELSE IF mo \notin DOMAIN ModalityMap
     THEN /\ outcome' = Outcome("KeyError", "", mo, << >>, NoTable)
          /\ lpc' = "raised"
     ELSE /\ outcome' = NoOutcome
          /\ lpc' = "validated"

\* A first call of load_coxpresdb_coexpression, with any arguments.
Call ==
  /\ prog = "load"
  /\ lpc = "idle"
  /\ \E sp \in SpeciesInputs, mo \in ModalityInputs, ve \in VersionInputs :
       Enter(sp, mo, ve)
  /\ UNCHANGED << prog, dir, prev >>

\* A second call over the same directory: the same modality and version, and the
\* species in any letter case.
CallAgain ==
  /\ prog = "load"
  /\ lpc \in { "returned", "raised" }
  /\ ncalls = 1
  /\ prev' = [ call |-> call, outcome |-> outcome, zip_path |-> zip_path ]
  /\ \E sp \in SpeciesInputs : Enter(sp, call.modality, call.version)
  /\ UNCHANGED << prog, dir >>

\* Lines 52-67: the pattern is built, the directory globbed, the match selected.
Locate ==
  /\ prog = "load"
  /\ lpc = "validated"
  /\ LET pat == Pattern(species, ModalityCode(call.modality), call.version)
         files == Sorted(Glob(dir, pat))
     IN  /\ pattern' = pat
         /\ matching_files' = files
         /\ fsLog' = Append(fsLog, FsAccess("glob", pat))
         /\ IF NoMatch(files)
            THEN /\ outcome' = Outcome("FileNotFoundError", "No ZIP file found", "data_dir",
                                       << pat >>, NoTable)
                 /\ lpc' = "raised"
                 /\ UNCHANGED zip_path
            ELSE IF Ambiguous(files, call.version)
            THEN /\ outcome' = Outcome("ValueError", "Multiple versions found", "", files, NoTable)
                 /\ lpc' = "raised"
                 /\ UNCHANGED zip_path
            ELSE IF files = << >>
            THEN \* matching_files[-1] of an empty list
                 /\ outcome' = Outcome("IndexError", "list index out of range", "", << >>, NoTable)
                 /\ lpc' = "raised"
                 /\ UNCHANGED zip_path
            ELSE /\ zip_path' = Select(files)
                 /\ lpc' = "located"
                 /\ UNCHANGED outcome
  /\ UNCHANGED << prog, dir, call, ncalls, species, file_list, records, prev >>

\* Lines 72-75: the archive is opened and its member names listed.
Open ==
  /\ prog = "load"
  /\ lpc = "located"
  /\ fsLog' = Append(fsLog, FsAccess("open", zip_path))
  /\ LET zip == FileNamed(dir, zip_path)
     IN  IF zip.readable
         THEN /\ file_list' = FileList(NameList(zip.members))
              /\ lpc' = "reading"
              /\ UNCHANGED outcome
         ELSE /\ outcome' = Outcome("BadZipFile", "File is not a zip file", "", << >>, NoTable)
              /\ lpc' = "raised"
              /\ UNCHANGED file_list
  /\ UNCHANGED << prog, dir, call, ncalls, species, pattern, matching_files, zip_path,
                  records, prev >>

\* Lines 77-105: one member of file_list.
ReadMember ==
  /\ prog = "load"
  /\ lpc = "reading"
  /\ file_list # << >>
  /\ LET filename == Head(file_list)
         bytes == ZipRead(FileNamed(dir, zip_path).members, filename)
     IN  IF ~IsGeneFile(filename)
         THEN /\ file_list' = Tail(file_list)
              /\ UNCHANGED << lpc, records, outcome, fsLog >>
         ELSE /\ fsLog' = Append(fsLog, FsAccess("read", filename))
              /\ IF Decodes(bytes)
                 THEN /\ records' = records \o ParseContent(PyInt(filename), bytes)
                      /\ file_list' = Tail(file_list)
                      /\ UNCHANGED << lpc, outcome >>
                 ELSE /\ outcome' = Outcome("UnicodeDecodeError", "invalid start byte", "",
                                            << filename >>, NoTable)
                      /\ lpc' = "raised"
                      /\ UNCHANGED << records, file_list >>
  /\ UNCHANGED << prog, dir, call, ncalls, species, pattern, matching_files, zip_path, prev >>

\* Lines 107-113: the table is built, validated and returned.
Return ==
  /\ prog = "load"
  /\ lpc = "reading"
  /\ file_list = << >>
  /\ LET df == DataFrame(records)
     IN  IF SchemaValid(df)
         THEN /\ outcome' = Outcome("ok", "", "", << >>, df)
              /\ lpc' = "returned"
         ELSE /\ outcome' = Outcome("SchemaError", "", "", << >>, NoTable)
              /\ lpc' = "raised"
  /\ UNCHANGED << prog, dir, call, ncalls, species, pattern, matching_files, zip_path,
                  file_list, records, fsLog, prev >>


\* ---------------------------------------------------------------- the exporter
exporterVars ==
  << epc, run, zip_files, efile_list, stats, all_stats, outputs, log_file, events, runs >>

\* Path.stem: the name without its last suffix.
Stem(name) ==
  LET dots == { i \in 2..Len(name) : name[i] = "." }
      last == CHOOSE i \in dots : \A j \in dots : j <= i
  IN  IF dots = {} THEN name ELSE Slice(name, 1, last - 1)

\* Lines 53-59
NewStats(dataset) ==
  [ dataset |-> dataset, files_processed |-> 0, files_failed |-> 0,
    records_total |-> 0, errors |-> << >> ]

NoStats == NewStats(<< >>)

\* An entry of stats["errors"]: the head of the message and the gene it names.
ErrorEntry(what, gene) == [ what |-> what, gene |-> gene ]

\* dataset_output_dir / f"{gene_id_1}.parquet"
OutputFile(dataset, gene_id_1) == [ dataset |-> dataset, gene |-> IntStr(gene_id_1) ]

\* output_file.exists()
Exists(files, path) == \E f \in files : f.path = path

\* What a run did with a member: skipped, written, empty, invalid or raised, and
\* whether the member's content was read.
Event(dataset, filename, path, read) ==
  [ dataset |-> dataset, filename |-> filename, path |-> path, read |-> read ]

\* validate_dataframe, lines 23-30
ValidateDataframe(df) == SchemaValid(df)

\* The mutant of AlreadyProcessed: the output is never found.
NeverProcessed(files, path) == FALSE

\* Lines 80-81
AlreadyProcessed(files, path) == Exists(files, path)

\* The mutant of AfterFailure: a failed gene ends the archive.
AbortAfterFailure(list) == << >>

\* The members still to visit after one has failed (lines 125-127, 131-135).
AfterFailure(list) == Tail(list)

\* The mutant of AfterOpenFailure: the exception leaves process_zip_file and main().
OpenFailureEscapes == "aborted"

\* Where the run is after ZipFile() has raised: the handler at lines 137-139 has
\* caught it and process_zip_file goes on to return its stats.
AfterOpenFailure == "members"

\* Lines 144-173: main() up to its loop.
Main ==
  /\ prog = "export"
  /\ epc \in { "idle", "done" }
  /\ run < MaxRuns
  /\ run' = run + 1
  /\ LET found == Sorted(Glob(dir, << "*" >> \o DotZip))
     IN  /\ zip_files' = found
         /\ epc' = IF found = << >> THEN "done" ELSE "scan"
         /\ runs' = IF found = << >>
                    THEN Append(runs, [ all_stats |-> << >>, events |-> << >>, logged |-> 0 ])
                    ELSE runs
  /\ all_stats' = << >>
  /\ events' = << >>
  /\ stats' = NoStats
  /\ efile_list' = << >>
  /\ log_file' = [ log_file EXCEPT !.writes = 0 ]
  /\ UNCHANGED << prog, dir, outputs >>

\* Lines 49-65: process_zip_file opens the archive; a failure is caught at 137-139.
OpenArchive ==
  /\ prog = "export"
  /\ epc = "scan"
  /\ zip_files # << >>
  /\ LET zip == FileNamed(dir, Head(zip_files))
         fresh == NewStats(Stem(zip.name))
     IN  IF zip.readable
         THEN /\ stats' = fresh
              /\ efile_list' = FileList(NameList(zip.members))
              /\ epc' = "members"
         ELSE /\ stats' = [ fresh EXCEPT !.errors = << ErrorEntry("ZIP processing error", << >>) >> ]
              /\ efile_list' = << >>
              /\ epc' = AfterOpenFailure
  /\ UNCHANGED << prog, dir, run, zip_files, all_stats, outputs, log_file, events, runs >>

\* stats["files_processed"] += 1
Processed(st) == [ st EXCEPT !.files_processed = @ + 1 ]

\* The mutant of EmptyMember: a member without records is not counted.
EmptyMemberUncounted(st) == st

\* Lines 128-129: a member that yields no record counts as processed.
EmptyMember(st) == Processed(st)

\* Lines 67-135: one member of file_list.
ProcessMember ==
  /\ prog = "export"
  /\ epc = "members"
  /\ efile_list # << >>
  /\ LET filename == Head(efile_list)
         zip == FileNamed(dir, Head(zip_files))
         gene_id_1 == PyInt(filename)
         output_file == OutputFile(stats.dataset, gene_id_1)
         bytes == ZipRead(zip.members, filename)
         recs == ParseContent(gene_id_1, bytes)
         df == DataFrame(recs)
         note(path, read) == Append(events, Event(stats.dataset, filename, path, read))
         processed == Processed(stats)
         failed(what) == [ stats EXCEPT !.files_failed = @ + 1,
                                        !.errors = Append(@, ErrorEntry(what, IntStr(gene_id_1))) ]
     IN  IF ~IsGeneFile(filename)
         THEN /\ efile_list' = Tail(efile_list)
              /\ UNCHANGED << stats, outputs, events >>
         ELSE IF AlreadyProcessed(outputs, output_file)
         THEN /\ stats' = processed
              /\ events' = note("skipped", FALSE)
              /\ efile_list' = Tail(efile_list)
              /\ UNCHANGED outputs
         ELSE IF ~Decodes(bytes)
         THEN /\ stats' = failed("Error processing gene")
              /\ events' = note("raised", TRUE)
              /\ efile_list' = AfterFailure(efile_list)
              /\ UNCHANGED outputs
         ELSE IF recs = << >>
         THEN /\ stats' = EmptyMember(stats)
              /\ events' = note("empty", TRUE)
              /\ efile_list' = Tail(efile_list)
              /\ UNCHANGED outputs
         ELSE IF ValidateDataframe(df)
         THEN /\ outputs' = outputs \cup { [ path |-> output_file, df |-> df ] }
              /\ stats' = [ processed EXCEPT !.records_total = @ + Len(df.rows) ]
              /\ events' = note("written", TRUE)
              /\ efile_list' = Tail(efile_list)
         ELSE /\ stats' = failed("Schema validation failed")
              /\ events' = note("invalid", TRUE)
              /\ efile_list' = AfterFailure(efile_list)
              /\ UNCHANGED outputs
  /\ UNCHANGED << prog, dir, epc, run, zip_files, all_stats, log_file, runs >>

\* Lines 141 and 177-178: process_zip_file returns its stats to main()'s loop.
CloseArchive ==
  /\ prog = "export"
  /\ epc = "members"
  /\ efile_list = << >>
  /\ all_stats' = Append(all_stats, stats)
  /\ zip_files' = Tail(zip_files)
  /\ epc' = "scan"
  /\ UNCHANGED << prog, dir, run, efile_list, stats, outputs, log_file, events, runs >>

RECURSIVE SumOf(_, _)
SumOf(list, field) ==
  IF list = << >> THEN 0 ELSE Head(list)[field] + SumOf(Tail(list), field)

\* The mutant of Summary: total_failed is summed from files_processed.
SummaryFailedFromProcessed(list) ==
  [ datasets_processed |-> Len(list),
    total_files |-> SumOf(list, "files_processed"),
    total_failed |-> SumOf(list, "files_processed"),
    total_records |-> SumOf(list, "records_total"),
    details |-> list ]

\* Lines 189-197 (the timestamp and the duration are left out)
Summary(list) ==
  [ datasets_processed |-> Len(list),
    total_files |-> SumOf(list, "files_processed"),
    total_failed |-> SumOf(list, "files_failed"),
    total_records |-> SumOf(list, "records_total"),
    details |-> list ]

NoLog == [ writes |-> 0, present |-> FALSE, summary |-> Summary(<< >>) ]

\* Lines 185-213: after the loop the summary is written to the log path.
WriteSummary ==
  /\ prog = "export"
  /\ epc = "scan"
  /\ zip_files = << >>
  /\ log_file' = [ writes |-> log_file.writes + 1, present |-> TRUE,
                   summary |-> Summary(all_stats) ]
  /\ runs' = Append(runs, [ all_stats |-> all_stats, events |-> events, logged |-> 1 ])
  /\ epc' = "done"
  /\ UNCHANGED << prog, dir, run, zip_files, efile_list, stats, all_stats, outputs, events >>

ExporterIdle ==
  /\ epc = "idle"
  /\ run = 0
  /\ zip_files = << >>
  /\ efile_list = << >>
  /\ stats = NoStats
  /\ all_stats = << >>
  /\ outputs = {}
  /\ log_file = NoLog
  /\ events = << >>
  /\ runs = << >>

\* ---------------------------------------------------------------- specification
NoPrev == [ call |-> [ species |-> << >>, modality |-> "", version |-> NoVersion ],
            outcome |-> NoOutcome, zip_path |-> << >> ]

LoaderIdle ==
  /\ lpc = "idle"
  /\ call = NoPrev.call
  /\ ncalls = 0
  /\ species = << >>
  /\ pattern = << >>
  /\ matching_files = << >>
  /\ zip_path = << >>
  /\ file_list = << >>
  /\ records = << >>
  /\ outcome = NoOutcome
  /\ fsLog = << >>
  /\ prev = NoPrev

InitLoad ==
  /\ prog = "load"
  /\ dir \in LocateDirs \cup ParseDirs
  /\ LoaderIdle
  /\ ExporterIdle

InitExport ==
  /\ prog = "export"
  /\ dir \in ExportDirs
  /\ LoaderIdle
  /\ ExporterIdle

Init == InitLoad \/ InitExport

vars == << prog, dir, loaderVars, exporterVars >>

Next ==
  \/ Call /\ UNCHANGED exporterVars
  \/ CallAgain /\ UNCHANGED exporterVars
  \/ Locate /\ UNCHANGED exporterVars
  \/ Open /\ UNCHANGED exporterVars
  \/ ReadMember /\ UNCHANGED exporterVars
  \/ Return /\ UNCHANGED exporterVars
  \/ Main /\ UNCHANGED loaderVars
  \/ OpenArchive /\ UNCHANGED loaderVars
  \/ ProcessMember /\ UNCHANGED loaderVars
  \/ CloseArchive /\ UNCHANGED loaderVars
  \/ WriteSummary /\ UNCHANGED loaderVars

Spec == Init /\ [][Next]_vars

\* ---------------------------------------------------------------- claims: locator
\* The call of the loader has ended.
CallEnded == prog = "load" /\ lpc \in { "returned", "raised" }

\* The call of the loader is past the locator (lines 52-67).
PastLocator == prog = "load" /\ lpc \in { "located", "reading", "returned", "raised" } /\ fsLog # << >>

\* The names of the directory that match the pattern of the call in progress.
Matches == { e.name : e \in { x \in dir : GlobMatch(x.name, pattern) } }

Opened == \E i \in 1..Len(fsLog) : fsLog[i].op \in { "open", "read" }

\* C7: a call with a modality outside microarray, rna-seq, union ends in
\* ValueError ("Invalid modality") and has touched the filesystem at no point:
\* no glob, no archive opened, no member read.
C7_InvalidModalityBeforeFilesystem ==
  (prog = "load" /\ ncalls > 0 /\ call.modality \notin { "microarray", "rna-seq", "union" })
    => /\ lpc = "raised"
       /\ outcome.kind = "ValueError"
       /\ outcome.what = "Invalid modality"
       /\ outcome.arg = call.modality
       /\ fsLog = << >>

C7_Witness ==
  /\ prog = "load"
  /\ lpc = "raised"
  /\ call.modality = "invalid"
  /\ \E e \in dir : StartsWith(e.name, species)

\* C8: with a valid modality, no version argument and two or more files matching
\* the pattern, the call ends in ValueError ("Multiple versions found") whose
\* message lists exactly the matching file names, and no archive is opened.
C8_AmbiguousSelection ==
  (PastLocator /\ ~call.version.given /\ Cardinality(Matches) >= 2)
    => /\ lpc = "raised"
       /\ outcome.kind = "ValueError"
       /\ outcome.what = "Multiple versions found"
       /\ Range(outcome.names) = Matches
       /\ Len(outcome.names) = Cardinality(Matches)
       /\ ~Opened

C8_Witness ==
  /\ CallEnded
  /\ outcome.what = "Multiple versions found"
  /\ Len(outcome.names) >= 2
  /\ call.modality = "union"

\* The pattern the claim states: {version-or-species}-{modality_code}.*.zip, the
\* species in title case.
ClaimedPrefix ==
  (IF call.version.given THEN call.version.text ELSE Title(call.species))
    \o << "-" >>
    \o (CASE call.modality = "microarray" -> << "m" >>
          [] call.modality = "rna-seq" -> << "r" >>
          [] call.modality = "union" -> << "u" >>
          [] OTHER -> << >>)
    \o << "." >>

\* C9: whenever the locator selects an archive, it is a file of the directory
\* that matches {version-or-species}-{modality_code}.*.zip and no matching file
\* is lexicographically after it.
C9_SelectsLastMatch ==
  (PastLocator /\ zip_path # << >>)
    => /\ \E e \in dir : e.name = zip_path
       /\ StartsWith(zip_path, ClaimedPrefix)
       /\ EndsWith(zip_path, DotZip)
       /\ \A e \in dir :
            (StartsWith(e.name, ClaimedPrefix) /\ EndsWith(e.name, DotZip)
               /\ Len(e.name) >= Len(ClaimedPrefix) + Len(DotZip))
              => ~StrLess(zip_path, e.name)
       /\ (Cardinality(Matches) = 1 => zip_path \in Matches)

C9_Witness ==
  /\ PastLocator
  /\ zip_path = FSpoU2
  /\ call.version.given
  /\ Cardinality(Matches) >= 2

\* C10: two calls over the same directory with the same modality and version and
\* species that differ only in letter case end the same way: the same archive
\* selected and the same table returned, or the same exception.
C10_SpeciesCaseInsensitive ==
  (CallEnded /\ ncalls = 2
     /\ call.modality = prev.call.modality /\ call.version = prev.call.version
     /\ Lowered(call.species) = Lowered(prev.call.species))
    => /\ outcome = prev.outcome
       /\ zip_path = prev.zip_path

C10_Witness ==
  /\ CallEnded
  /\ ncalls = 2
  /\ call.species # prev.call.species
  /\ Lowered(call.species) = Lowered(prev.call.species)
  /\ outcome.kind = "ok"
  /\ zip_path = FSpoU1

\* ---------------------------------------------------------------- claims: parser, schema
\* The archive the loader selected can be opened.
SelectedReadable ==
  PastLocator /\ zip_path # << >> /\ FileNamed(dir, zip_path).readable

\* C1: when the selected archive is readable the loader does not end in an
\* error, whatever its members hold.
C1_ParserNeverRaises == SelectedReadable => lpc # "raised"

\* The table has the three columns in order, integers that fit the integer
\* columns and no null.
WellTyped(df) ==
  /\ df.columns = << "gene_id_1", "gene_id_2", "association" >>
  /\ df.dtypes = << "int64", "int64", "float64" >>
  /\ \A i \in 1..Len(df.rows) :
       /\ DOMAIN df.rows[i] = { "gene_id_1", "gene_id_2", "association" }
       /\ FitsInt64(df.rows[i].gene_id_1)
       /\ FitsInt64(df.rows[i].gene_id_2)
       /\ df.rows[i].association.kind \in { "finite", "inf" }

\* C3: the table a call of the loader returns, and every table the exporter has
\* written, has exactly the columns gene_id_1, gene_id_2, association in that
\* order, integer / integer / float typed, with no null.
C3_TablesSatisfySchema ==
  /\ (prog = "load" /\ lpc = "returned") => (outcome.kind = "ok" /\ WellTyped(outcome.df))
  /\ \A f \in outputs : WellTyped(f.df)

C3_Witness ==
  /\ prog = "load"
  /\ lpc = "returned"
  /\ Len(outcome.df.rows) >= 2
  /\ \E m \in Range(FileNamed(dir, zip_path).members) : m = MMixed

\* The records the claim gives a member: one for each line with at least two
\* tab-separated fields whose field 0 parses as an integer and field 1 as a float.
RECURSIVE ClaimedLines(_, _)
ClaimedLines(gene_id_1, lines) ==
  IF lines = << >> THEN << >>
  ELSE LET parts == Split(Head(lines), "\t")
       IN  (IF Len(parts) >= 2 /\ IntParses(parts[1]) /\ FloatParses(parts[2])
            THEN << [ gene_id_1 |-> gene_id_1, gene_id_2 |-> PyInt(parts[1]),
                      association |-> PyFloat(parts[2]) ] >>
            ELSE << >>)
             \o ClaimedLines(gene_id_1, Tail(lines))

ClaimedRecords(gene_id_1, body) == ClaimedLines(gene_id_1, Split(body, "\n"))

\* The bytes of the member the loader visits next.
NextBytes == ZipRead(FileNamed(dir, zip_path).members, Head(file_list))

\* C4: visiting a member whose name parses as an integer g (and whose bytes are
\* text) appends exactly one record (g, gene_id_2, association) for each
\* well-formed line of the member, in line order, and nothing for any other line.
C4_OneRecordPerWellFormedLine ==
  [][ (prog = "load" /\ lpc = "reading" /\ file_list # << >> /\ IntParses(Head(file_list))
         /\ Decodes(NextBytes))
        => records' = records \o ClaimedRecords(PyInt(Head(file_list)), NextBytes) ]_vars

\* ---------------------------------------------------------------- claims: exporter
\* The names of a list that parse as integers: the gene members.
GeneNames(list) == SelectSeq(list, IntParses)

\* What this run has done so far with the members of the archive in progress.
Visited == SelectSeq(events, LAMBDA e : e.dataset = stats.dataset)

Failed(evs) == SelectSeq(evs, LAMBDA e : e.path \in { "invalid", "raised" })

\* C5: while an archive is processed, every gene member of it has been visited or
\* is still to be visited, in namelist order, whatever failed before it; each
\* failed member is counted once in files_failed and has one message in errors
\* naming its gene.
C5_FailureDoesNotAbortArchive ==
  (prog = "export" /\ epc = "members" /\ FileNamed(dir, Head(zip_files)).readable)
    => LET all == GeneNames(FileList(NameList(FileNamed(dir, Head(zip_files)).members)))
           seen == Visited
           bad == Failed(seen)
       IN  /\ [ i \in 1..Len(seen) |-> seen[i].filename ] \o GeneNames(efile_list) = all
           /\ stats.files_failed = Len(bad)
           /\ Len(stats.errors) = Len(bad)
           /\ \A i \in 1..Len(bad) :
                /\ stats.errors[i].gene = IntStr(PyInt(bad[i].filename))
                /\ stats.errors[i].what =
                     (IF bad[i].path = "invalid" THEN "Schema validation failed"
                      ELSE "Error processing gene")

C5_Witness ==
  /\ prog = "export"
  /\ epc = "members"
  /\ efile_list = << >>
  /\ Len(Visited) = 2
  /\ Visited[1].path = "invalid"
  /\ Visited[2].path = "written"

\* The archives of the input directory.
ZipNames == { e.name : e \in { x \in dir : EndsWith(x.name, DotZip) } }

DatasetError == << ErrorEntry("ZIP processing error", << >>) >>

\* The exporter has a next step: the guard of OpenArchive or WriteSummary (scan),
\* or of ProcessMember or CloseArchive (members), or of Main holds.
CanStep ==
  \/ epc = "scan"
  \/ epc = "members"
  \/ epc \in { "idle", "done" } /\ run < MaxRuns

\* C6: an archive that cannot be opened leaves process_zip_file with stats that
\* hold one dataset-level error and no count, the run goes on (it has a next
\* step until main() is done), and when main() is done every archive of the
\* directory has its stats in all_stats and the summary has been written once.
C6_OpenFailureDoesNotStopRun ==
  prog = "export" =>
    /\ epc # "done" => CanStep
    /\ (epc = "members" /\ ~FileNamed(dir, Head(zip_files)).readable)
         => /\ stats = [ NewStats(Stem(Head(zip_files))) EXCEPT !.errors = DatasetError ]
            /\ efile_list = << >>
    /\ (epc = "done" /\ ZipNames # {})
         => /\ Len(all_stats) = Cardinality(ZipNames)
            /\ \A n \in ZipNames :
                 \E i \in 1..Len(all_stats) :
                   /\ all_stats[i].dataset = Stem(n)
                   /\ ~FileNamed(dir, n).readable => all_stats[i].errors = DatasetError
            /\ log_file.present
            /\ log_file.writes = 1
            /\ log_file.summary.details = all_stats

C6_Witness ==
  /\ prog = "export"
  /\ epc = "done"
  /\ Len(all_stats) = 2
  /\ all_stats[1].errors = DatasetError
  /\ all_stats[2].files_processed >= 1
  /\ log_file.present

\* The second of two consecutive runs writes nothing and adds no record.
NothingWritten(first, second) ==
  /\ Len(second.all_stats) = Len(first.all_stats)
  /\ \A i \in 1..Len(second.all_stats) :
       /\ second.all_stats[i].dataset = first.all_stats[i].dataset
       /\ second.all_stats[i].records_total = 0
  /\ \A i \in 1..Len(second.events) : second.events[i].path # "written"

SameProcessed(first, second, i) ==
  second.all_stats[i].files_processed = first.all_stats[i].files_processed

\* C2 as stated: in the second of two runs over the same directories every gene
\* member takes the output-exists skip path without being read, nothing is
\* written, files_processed is as in the first run and records_total gets nothing.
C2_SecondRunSkipsEveryMember ==
  (prog = "export" /\ Len(runs) >= 2)
    => /\ NothingWritten(runs[1], runs[2])
       /\ \A i \in 1..Len(runs[2].all_stats) : SameProcessed(runs[1], runs[2], i)
       /\ \A i \in 1..Len(runs[2].events) :
            runs[2].events[i].path = "skipped" /\ ~runs[2].events[i].read

\* The artifact of the gene that the member of this event names exists.
HasArtifact(e) == Exists(outputs, OutputFile(e.dataset, PyInt(e.filename)))

\* C2 amended: in a run that follows another over the same directories, a gene
\* member whose artifact exists takes the skip path without being read; a gene
\* member without an artifact (no record, failed validation, an error raised) is
\* read again and ends as before; nothing is written, records_total is 0 and
\* files_processed + files_failed is as before, with files_processed itself as
\* before unless a member failed in the run before under a name whose gene has
\* an artifact (written for another member name of the same gene id).
C2_SecondRunSkipsWrittenMembers ==
  prog = "export" =>
    \A k \in 2..Len(runs) :
      LET first == runs[k - 1]
          second == runs[k]
      IN  /\ NothingWritten(first, second)
          /\ Len(second.events) = Len(first.events)
          /\ \A i \in 1..Len(second.events) :
               /\ second.events[i].filename = first.events[i].filename
               /\ second.events[i].dataset = first.events[i].dataset
               /\ IF HasArtifact(second.events[i])
                  THEN second.events[i].path = "skipped" /\ ~second.events[i].read
                  ELSE /\ second.events[i].path = first.events[i].path
                       /\ second.events[i].path \in { "empty", "invalid", "raised" }
                       /\ second.events[i].read
          /\ \A i \in 1..Len(second.all_stats) :
               /\ second.all_stats[i].files_processed + second.all_stats[i].files_failed
                    = first.all_stats[i].files_processed + first.all_stats[i].files_failed
               /\ (\A j \in 1..Len(first.events) :
                     (first.events[j].dataset = first.all_stats[i].dataset
                        /\ first.events[j].path \in { "invalid", "raised" })
                       => ~HasArtifact(first.events[j]))
                    => SameProcessed(first, second, i)

C2_Witness ==
  /\ prog = "export"
  /\ Len(runs) >= 2
  /\ Len(runs[2].events) = 2
  /\ runs[1].events[1].path = "written"
  /\ runs[2].events[1].path = "skipped"
  /\ runs[2].events[2].path = "empty"

\* ---------------------------------------------------------------- claims: no match
\* C11: with a valid modality and no file of the directory matching the pattern,
\* the call ends in FileNotFoundError ("No ZIP file found") whose message names
\* the pattern {version-or-species}-{modality_code}.*.zip and the directory, and
\* no archive is opened.
C11_NotFound ==
  (PastLocator /\ Matches = {})
    => /\ lpc = "raised"
       /\ outcome.kind = "FileNotFoundError"
       /\ outcome.what = "No ZIP file found"
       /\ outcome.names = << ClaimedPrefix \o << "*" >> \o DotZip >>
       /\ outcome.arg = "data_dir"
       /\ zip_path = << >>
       /\ ~Opened

C11_Witness ==
  /\ CallEnded
  /\ outcome.kind = "FileNotFoundError"
  /\ call.modality = "rna-seq"
  /\ \E e \in dir : e.name = FSpoU1
  /\ ~Opened

\* ---------------------------------------------------------------- claims: members that are not gene files
\* C12: a member whose name does not parse as an integer is passed over: the
\* loader appends no record, raises nothing and reads nothing; the exporter
\* leaves files_processed, files_failed, records_total and errors (its stats),
\* the artifacts and the reads as they were.  Directory entries and hidden files
\* never get as far as the name test, and every content read is of a member
\* whose name parses.
C12_NonGeneMembersAreInert ==
  [][ /\ (prog = "load" /\ lpc = "reading" /\ file_list # << >> /\ ~IntParses(Head(file_list)))
           => /\ file_list' = Tail(file_list)
              /\ UNCHANGED << lpc, records, outcome, fsLog >>
      /\ (prog = "export" /\ epc = "members" /\ efile_list # << >> /\ ~IntParses(Head(efile_list)))
           => /\ efile_list' = Tail(efile_list)
              /\ UNCHANGED << epc, stats, outputs, events >>
      /\ \A f \in Range(file_list') \cup Range(efile_list') :
           ~EndsWith(f, << "/" >>) /\ ~StartsWith(f, << "." >>)
      /\ \A i \in 1..Len(fsLog') : fsLog'[i].op = "read" => IntParses(fsLog'[i].name)
      /\ \A i \in 1..Len(events') : IntParses(events'[i].filename)
    ]_vars

\* An archive of a nested gene file and a gene file has been exported: one file
\* processed, one record, one read.
C12_Witness ==
  /\ prog = "export" /\ epc = "members" /\ efile_list = << >>
  /\ FileNamed(dir, Head(zip_files)).members = << MNested, MGood >>
  /\ stats.files_processed = 1 /\ stats.files_failed = 0 /\ stats.records_total = 1
  /\ stats.errors = << >>
  /\ Len(Visited) = 1

\* ---------------------------------------------------------------- claims: run summary
\* list[1][field] + ... + list[n][field]
RECURSIVE TotalTo(_, _, _)
TotalTo(list, field, n) ==
  IF n = 0 THEN 0 ELSE TotalTo(list, field, n - 1) + list[n][field]

\* The log holds one summary written by this run and it agrees with the
\* per-dataset stats of the run: one entry per archive in processing (sorted)
\* order, and the totals are the sums over the entries.
SummaryWritten ==
  LET s == log_file.summary
      n == Len(s.details)
  IN  /\ log_file.writes = 1
      /\ log_file.present
      /\ s.details = all_stats
      /\ s.datasets_processed = Cardinality(ZipNames)
      /\ n = Cardinality(ZipNames)
      /\ { s.details[i].dataset \o DotZip : i \in 1..n } = ZipNames
      /\ \A i, j \in 1..n :
           i < j => StrLess(s.details[i].dataset \o DotZip, s.details[j].dataset \o DotZip)
      /\ s.total_files = TotalTo(s.details, "files_processed", n)
      /\ s.total_failed = TotalTo(s.details, "files_failed", n)
      /\ s.total_records = TotalTo(s.details, "records_total", n)

\* C13 as stated: when main() has ended, for every input directory, one with no
\* archives included, exactly one summary has been written and it agrees with
\* the per-dataset stats.
C13_SummaryAlwaysWritten ==
  (prog = "export" /\ epc = "done") => SummaryWritten

\* C13: when main() has ended on a directory with at least one archive, exactly
\* one summary has been written to the log path: datasets_processed is the number
\* of archives, total_files, total_failed and total_records are the sums of
\* files_processed, files_failed and records_total over the per-dataset stats, and
\* details holds one stats entry per archive in processing order.  On a directory
\* with no archives main() returns after its warning and writes no summary.
C13_SummaryWrittenWhenArchives ==
  (prog = "export" /\ epc = "done")
    => IF ZipNames = {}
       THEN log_file.writes = 0 /\ ~log_file.present /\ all_stats = << >>
       ELSE SummaryWritten

C13_Witness ==
  /\ prog = "export" /\ epc = "done"
  /\ Cardinality(ZipNames) = 2
  /\ log_file.writes = 1
  /\ log_file.summary.details[1].files_processed = 1
  /\ log_file.summary.details[2].files_failed = 1
  /\ log_file.summary.total_files = 1
  /\ log_file.summary.total_failed = 1
  /\ log_file.summary.total_records = 1

\* ---------------------------------------------------------------- claims: accounting
\* The members of the archive in hand that process_zip_file counts.
CountedMembers ==
  LET members == FileNamed(dir, Head(zip_files)).members
  IN  { i \in 1..Len(members) :
          /\ IntParses(members[i].name)
          /\ ~EndsWith(members[i].name, << "/" >>)
          /\ ~StartsWith(members[i].name, << "." >>) }

\* The rows of the artifacts written for the events of evs.
RECURSIVE RowsWritten(_)
RowsWritten(evs) ==
  IF evs = << >> THEN 0
  ELSE LET e == Head(evs)
           artifact == CHOOSE o \in outputs :
                         o.path = OutputFile(e.dataset, PyInt(e.filename))
       IN  (IF e.path = "written" THEN Len(artifact.df.rows) ELSE 0) + RowsWritten(Tail(evs))

\* C14: when process_zip_file is about to return for an archive it could open,
\* each member with an integer-parsable name (no directory entry, no hidden file)
\* has been counted exactly once: files_processed + files_failed is the number of
\* such members, files_failed is the number of entries in errors, and
\* records_total is the number of rows of the artifacts written during the call.
C14_Accounting ==
  (prog = "export" /\ epc = "members" /\ efile_list = << >>
     /\ FileNamed(dir, Head(zip_files)).readable)
    => /\ stats.files_processed + stats.files_failed = Cardinality(CountedMembers)
       /\ Len(Visited) = Cardinality(CountedMembers)
       /\ stats.files_failed = Len(stats.errors)
       /\ stats.records_total = RowsWritten(Visited)

C14_Witness ==
  /\ prog = "export" /\ epc = "members" /\ efile_list = << >>
  /\ FileNamed(dir, Head(zip_files)).readable
  /\ Cardinality(CountedMembers) = 2
  /\ stats.files_processed = 1
  /\ stats.files_failed = 1
  /\ stats.records_total = 1

====
